---- MODULE Spec2Model ----
(***************************************************************************)
(* Model of the block index and range-query service of nodekit-seq,        *)
(* rpc/jsonrpc_server.go: the four in-memory stores of JSONRPCServer, the  *)
(* ingestion entry point AcceptBlock and the five query handlers.          *)
(*                                                                         *)
(* AcceptBlock takes no lock, so every store update it makes is a separate *)
(* step that a concurrently running query handler can observe; pc is the   *)
(* writer's position (the source line it executes next).  A query handler  *)
(* only reads the stores and is one step.  What a call gave its caller is  *)
(* kept in q (a query) or acc (AcceptBlock) until the caller has taken it  *)
(* (Return); calls are looked at one at a time.                            *)
(*                                                                         *)
(* Heights are uint64 in the source; the model keeps the modular           *)
(* arithmetic with a width of HeightBits bits.  Timestamps are int64 and   *)
(* are only compared, never added.  The opaque header fields Prnt and      *)
(* StateRoot, which no handler reads, are left out of a block.             *)
(***************************************************************************)
EXTENDS Integers, Sequences, FiniteSets, TLC

\* ---------------------------------------------------------------- bounds
HeightBits == 2
MaxTime == 2
MaxBlocks == 2
MaxTxs == 2
TxMaxBlocks == 1
ScanEntries == 2

HeightMod == 2 ^ HeightBits
MaxHeight == HeightMod - 1
Heights == 0 .. MaxHeight
Timestamps == 0 .. MaxTime

\* ------------------------------------------------- identifiers and strings
\* ids.Empty, the zero identifier held by BlockInfo{}.
Empty == <<>>

\* The identifier rpc.PackBlockMessage packs and rpc.UnpackBlockMessage
\* returns: the content hash of the block (collision free).
BlockID(blk) == <<blk.Hght, blk.Tmstmp, blk.Txs>>

\* The Go string "" and a string that is no cb58 encoding.
EmptyStr == <<>>
BadStr == <<"!">>

\* id.String(): the cb58 text of an identifier.
IDString(id) == <<"cb58", id>>

\* ids.FromString: the identifier a cb58 text decodes to, or an error; the
\* empty string has no checksum and is an error.
FromString(s) ==
  IF Len(s) = 2 /\ s[1] = "cb58"
    THEN [err |-> FALSE, id |-> s[2]]
    ELSE [err |-> TRUE, id |-> Empty]

\* -------------------------------------------------------------- hex
HexTable == <<"0", "1", "2", "3", "4", "5", "6", "7",
              "8", "9", "a", "b", "c", "d", "e", "f">>

\* hex.EncodeToString: two lower-case digits per byte, high nibble first.
RECURSIVE EncodeToString(_)
EncodeToString(bytes) ==
  IF bytes = <<>> THEN <<>>
  ELSE <<HexTable[(bytes[1] \div 16) + 1], HexTable[(bytes[1] % 16) + 1]>>
       \o EncodeToString(Tail(bytes))

\* ------------------------------------------------------- transactions
\* A transaction: its identifier tx.ID(), the kind of its action, and for
\* an actions.SequencerMsg the ChainId and Data of the action.
TxA1 == [id |-> 1, Kind |-> "SequencerMsg", ChainId |-> <<171>>, Data |-> <<1>>]
TxA2 == [id |-> 2, Kind |-> "SequencerMsg", ChainId |-> <<171>>, Data |-> <<2>>]
TxB3 == [id |-> 3, Kind |-> "SequencerMsg", ChainId |-> <<10, 0>>, Data |-> <<3>>]
TxT4 == [id |-> 4, Kind |-> "Transfer", ChainId |-> <<>>, Data |-> <<>>]
TxCatalog == {TxA1, TxA2, TxB3, TxT4}

TxID(tx) == tx.id

\* Sequences of distinct transactions of length at most n.
RECURSIVE TxSeqs(_)
TxSeqs(n) ==
  IF n = 0 THEN {<<>>}
  ELSE LET shorter == TxSeqs(n - 1)
       IN shorter \cup
          {Append(s, t) : s \in {x \in shorter : Len(x) = n - 1},
                          t \in TxCatalog}

Distinct(s) == \A i, k \in 1 .. Len(s) : i # k => s[i] # s[k]

BoolSeqs(n) == [1 .. n -> BOOLEAN]

\* The payloads the finality engine delivers: a transaction list and one
\* execution result (success flag) per transaction, in the same order.
TxPayloads ==
  {[Txs |-> s, results |-> r] : s \in {x \in TxSeqs(MaxTxs) : Distinct(x)},
                                r \in UNION {BoolSeqs(n) : n \in 0 .. MaxTxs}}

RichPayloads == {p \in TxPayloads : Len(p.Txs) = Len(p.results)}

\* The header-index specification does not vary the transactions.
PlainPayloads == {[Txs |-> <<TxA1, TxT4>>, results |-> <<TRUE, TRUE>>]}

\* Blocks of the header-index specification and of the partition
\* specification.
MkInput(h, t, p) ==
  [blk |-> [Hght |-> h, Tmstmp |-> t, Txs |-> p.Txs], results |-> p.results]

HeaderInputs == {MkInput(h, t, p) : h \in Heights, t \in Timestamps, p \in PlainPayloads}
TxInputs == {MkInput(h, h, p) : h \in 0 .. (TxMaxBlocks - 1), p \in RichPayloads}

Namespaces == {EncodeToString(t.ChainId) : t \in TxCatalog}

\* ------------------------------------------------------------- state
VARIABLES
  headers,             \* map[ids.ID]*chain.StatefulBlock
  blocksWithValidTxs,  \* map[ids.ID]*types.SequencerBlock
  idsByHeight,         \* btree.Map[uint64, ids.ID]
  blocks,              \* btree.Map[int64, uint64]: timestamp -> height
  pc,                  \* position of the AcceptBlock call in progress
  cur,                 \* locals of the AcceptBlock call in progress
  acc,                 \* what the AcceptBlock call that just ended gave its caller
  q,                   \* what the query that just ended gave its caller
  ingested,            \* history: the inputs of the completed AcceptBlock calls
  crashed              \* the process has died

stores == <<headers, blocksWithValidTxs, idsByHeight, blocks>>
vars == <<headers, blocksWithValidTxs, idsByHeight, blocks, pc, cur, acc, q,
          ingested, crashed>>

EmptyMap == [x \in {} |-> x]
NoCur == [blk |-> [Hght |-> 0, Tmstmp |-> 0, Txs |-> <<>>], results |-> <<>>, id |-> Empty]
NoAcc == [fail |-> "none", ret |-> "none"]
NoRes == [kind |-> "none"]
NoCall == [op |-> "none", args |-> <<>>, res |-> NoRes, reply |-> NoRes, ret |-> "none"]

\* NewJSONRPCServer
Init ==
  /\ headers = EmptyMap
  /\ blocksWithValidTxs = EmptyMap
  /\ idsByHeight = EmptyMap
  /\ blocks = EmptyMap
  /\ pc = "idle"
  /\ cur = NoCur
  /\ acc = NoAcc
  /\ q = NoCall
  /\ ingested = <<>>
  /\ crashed = FALSE

\* No ended call is waiting for its caller, and the process is alive.
Quiet == q = NoCall /\ acc = NoAcc /\ ~crashed

\* The caller of the call that just ended takes its outcome.
Return ==
  /\ ~crashed
  /\ q # NoCall \/ acc # NoAcc
  /\ q' = NoCall
  /\ acc' = NoAcc
  /\ UNCHANGED <<stores, pc, cur, ingested, crashed>>

\* btree.Map.Set and the map assignment m[k] = v
MapSet(m, k, v) == [x \in DOMAIN m \cup {k} |-> IF x = k THEN v ELSE m[x]]

\* ---------------------------------------------------------- AcceptBlock
\* The finality engine delivers blocks one at a time, in increasing height
\* order, with timestamps that never decrease.
InOrder(inp) ==
  /\ \A h \in DOMAIN idsByHeight : h < inp.blk.Hght
  /\ \A t \in DOMAIN blocks : t <= inp.blk.Tmstmp

\* Lines 427-436: pack and unpack the block message.  A packing failure is
\* returned; the error of the unpacking is never read, and the nil
\* identifier it comes with is dereferenced at line 437.
AcceptBlock_Unpack(inp, fail) ==
  /\ pc = "idle" /\ Quiet
  /\ InOrder(inp)
  /\ UNCHANGED q
  /\ CASE fail = "pack" ->
            /\ acc' = [fail |-> "pack", ret |-> "error"]
            /\ UNCHANGED <<stores, pc, cur, ingested, crashed>>
       [] fail = "unpack" ->
            /\ acc' = [fail |-> "unpack", ret |-> "panic"]
            /\ crashed' = TRUE
            /\ UNCHANGED <<stores, pc, cur, ingested>>
       [] OTHER ->
            /\ acc' = NoAcc
            /\ pc' = "l437"
            /\ cur' = [blk |-> inp.blk, results |-> inp.results, id |-> BlockID(inp.blk)]
            /\ UNCHANGED <<stores, ingested, crashed>>

\* The call with lines 437 and 438 in the other order: the height is indexed
\* while the header is not stored yet.
AcceptBlock_IndexBeforeHeader ==
  /\ pc = "l437" /\ Quiet
  /\ idsByHeight' = MapSet(idsByHeight, cur.blk.Hght, cur.id)
  /\ pc' = "l438"
  /\ UNCHANGED <<q, headers, blocksWithValidTxs, blocks, cur, acc, ingested, crashed>>

\* Line 437 as `j.headers = map[ids.ID]*chain.StatefulBlock{*id: block}`: the
\* map is made anew with the one header.
AcceptBlock_StoreHeader_Reset ==
  /\ pc = "l437" /\ Quiet
  /\ headers' = MapSet(EmptyMap, cur.id, cur.blk)
  /\ pc' = "l438"
  /\ UNCHANGED <<q, blocksWithValidTxs, idsByHeight, blocks, cur, acc, ingested, crashed>>

\* Line 437: j.headers[*id] = block
AcceptBlock_StoreHeader ==
  /\ pc = "l437" /\ Quiet
  /\ headers' = MapSet(headers, cur.id, cur.blk)
  /\ pc' = "l438"
  /\ UNCHANGED <<q, blocksWithValidTxs, idsByHeight, blocks, cur, acc, ingested, crashed>>

\* Line 438 keyed by the timestamp: j.idsByHeight.Set(uint64(block.Tmstmp), *id)
AcceptBlock_SetHeight_ByTime ==
  /\ pc = "l438" /\ Quiet
  /\ idsByHeight' = MapSet(idsByHeight, cur.blk.Tmstmp, cur.id)
  /\ pc' = "l439"
  /\ UNCHANGED <<q, headers, blocksWithValidTxs, blocks, cur, acc, ingested, crashed>>

\* Line 438: j.idsByHeight.Set(block.Hght, *id)
AcceptBlock_SetHeight ==
  /\ pc = "l438" /\ Quiet
  /\ idsByHeight' = MapSet(idsByHeight, cur.blk.Hght, cur.id)
  /\ pc' = "l439"
  /\ UNCHANGED <<q, headers, blocksWithValidTxs, blocks, cur, acc, ingested, crashed>>

\* Line 439 keyed by a clock reading instead of the block's own timestamp:
\* j.blocks.Set(time.Now().Unix(), block.Hght)
AcceptBlock_SetTime_Clock ==
  /\ pc = "l439" /\ Quiet
  /\ \E now \in Timestamps : blocks' = MapSet(blocks, now, cur.blk.Hght)
  /\ pc' = "l443"
  /\ UNCHANGED <<q, headers, blocksWithValidTxs, idsByHeight, cur, acc, ingested, crashed>>

\* Line 439 with the arguments exchanged: j.blocks.Set(int64(block.Hght),
\* uint64(block.Tmstmp))
AcceptBlock_SetTime_Swapped ==
  /\ pc = "l439" /\ Quiet
  /\ blocks' = MapSet(blocks, cur.blk.Hght, cur.blk.Tmstmp)
  /\ pc' = "l443"
  /\ UNCHANGED <<q, headers, blocksWithValidTxs, idsByHeight, cur, acc, ingested, crashed>>

\* Line 439: j.blocks.Set(block.Tmstmp, block.Hght)
AcceptBlock_SetTime ==
  /\ pc = "l439" /\ Quiet
  /\ blocks' = MapSet(blocks, cur.blk.Tmstmp, cur.blk.Hght)
  /\ pc' = "l443"
  /\ UNCHANGED <<q, headers, blocksWithValidTxs, idsByHeight, cur, acc, ingested, crashed>>

\* The test of lines 448-450 without `if result.Success`.
QualifiesAnyResult(tx, result) == tx.Kind = "SequencerMsg"

\* Lines 448-450: the transaction is kept when its result is successful and
\* its action is an *actions.SequencerMsg.
Qualifies(tx, result) == result /\ tx.Kind = "SequencerMsg"

\* The record of lines 455-460 with a one-based Index: uint64(i) + 1.
NewSEQTransaction_OneBased(tx, i) ==
  [Namespace |-> EncodeToString(tx.ChainId),
   Tx_id |-> TxID(tx),
   Transaction |-> tx.Data,
   Index |-> i + 1]

\* Lines 451-461: the record appended for transaction tx at position i
\* (zero-based).
NewSEQTransaction(tx, i) ==
  [Namespace |-> EncodeToString(tx.ChainId),
   Tx_id |-> TxID(tx),
   Transaction |-> tx.Data,
   Index |-> i]

\* Lines 443-465: the loop over blk.Txs, from position i (one-based here).
RECURSIVE SeqTxs(_, _, _, _)
SeqTxs(txs, results, i, seq_txs) ==
  IF i > Len(txs) THEN seq_txs
  ELSE IF Qualifies(txs[i], results[i])
    THEN LET hx == EncodeToString(txs[i].ChainId)
             old == IF hx \in DOMAIN seq_txs THEN seq_txs[hx] ELSE <<>>
         IN SeqTxs(txs, results, i + 1,
                   MapSet(seq_txs, hx, Append(old, NewSEQTransaction(txs[i], i - 1))))
    ELSE SeqTxs(txs, results, i + 1, seq_txs)

\* Lines 467-473
SequencerBlock(blk, results) ==
  [Tmstmp |-> blk.Tmstmp, Hght |-> blk.Hght,
   Txs |-> SeqTxs(blk.Txs, results, 1, EmptyMap)]

\* Lines 443-478: build the partition, store it, return nil.
AcceptBlock_StorePartition ==
  /\ pc = "l443" /\ Quiet
  /\ blocksWithValidTxs' =
       MapSet(blocksWithValidTxs, cur.id, SequencerBlock(cur.blk, cur.results))
  /\ pc' = "idle"
  /\ cur' = NoCur
  /\ acc' = [fail |-> "none", ret |-> "nil"]
  /\ ingested' = Append(ingested, cur)
  /\ UNCHANGED <<q, headers, idsByHeight, blocks, crashed>>

\* A query handler that reads a Go map while AcceptBlock is writing it: the
\* runtime may stop the process ("concurrent map read and map write").
RaceFatal ==
  /\ pc \in {"l437", "l443"} /\ Quiet
  /\ crashed' = TRUE
  /\ q' = [NoCall EXCEPT !.op = "race", !.ret = "fatal"]
  /\ UNCHANGED <<stores, pc, cur, acc, ingested>>

\* ------------------------------------------------------------- queries
\* BlockInfo{BlockId: id}; BlockInfo{} holds ids.Empty.
BlockInfo(id) == [BlockId |-> id]

\* The reply object the RPC layer hands to a handler: the zero value of
\* BlockHeadersResponse, TransactionResponse or SEQTransactionResponse.
ZeroHeadersReply ==
  [kind |-> "headers", From |-> 0, Blocks |-> <<>>,
   Prev |-> BlockInfo(Empty), Next |-> BlockInfo(Empty)]
ZeroTxReply == [kind |-> "txs", Txs |-> <<>>, BlockId |-> Empty]

\* `reply = &res`: the handler's own copy of the pointer is redirected to
\* res; the object the caller passed in keeps its value.
AssignReply(reply, res) == reply

\* Lines 212-219: the uint64 subtraction firstBlock - 1 is the lookup key.
PrevKey(firstBlock) == (firstBlock + HeightMod - 1) % HeightMod

PrevOf(firstBlock) ==
  IF PrevKey(firstBlock) \in DOMAIN idsByHeight
    THEN BlockInfo(idsByHeight[PrevKey(firstBlock)])
    ELSE BlockInfo(Empty)

\* The iterator of lines 225-252 returning true at line 248: the scan goes on
\* after a block beyond the bound.
RECURSIVE Ascend_NoStop(_, _, _)
Ascend_NoStop(heightKey, End, st) ==
  IF heightKey > MaxHeight THEN st
  ELSE IF heightKey \notin DOMAIN idsByHeight THEN Ascend_NoStop(heightKey + 1, End, st)
  ELSE LET id == idsByHeight[heightKey] IN
    IF id \notin DOMAIN headers THEN [st EXCEPT !.panicked = TRUE]
    ELSE LET blk == headers[id]
             appended == IF blk.Hght = heightKey
                           THEN Append(st.blocks, BlockInfo(id))
                           ELSE st.blocks
         IN IF blk.Tmstmp > End
              THEN Ascend_NoStop(heightKey + 1, End,
                     [blocks |-> appended, Next |-> BlockInfo(id), panicked |-> FALSE])
              ELSE Ascend_NoStop(heightKey + 1, End, [st EXCEPT !.blocks = appended])

\* Lines 225-252: idsByHeight.Ascend(pivot, iter) visits the keys >= pivot in
\* ascending order until iter returns false.  st holds the closure's
\* captured blocks and Next; panicked records the nil dereference blk.Hght
\* of a header that is not in the map.
RECURSIVE Ascend(_, _, _)
Ascend(heightKey, End, st) ==
  IF heightKey > MaxHeight THEN st
  ELSE IF heightKey \notin DOMAIN idsByHeight THEN Ascend(heightKey + 1, End, st)
  ELSE LET id == idsByHeight[heightKey] IN
    IF id \notin DOMAIN headers THEN [st EXCEPT !.panicked = TRUE]
    ELSE LET blk == headers[id]
             appended == IF blk.Hght = heightKey
                           THEN Append(st.blocks, BlockInfo(id))
                           ELSE st.blocks
         IN IF blk.Tmstmp > End
              THEN [blocks |-> appended, Next |-> BlockInfo(id), panicked |-> FALSE]
              ELSE Ascend(heightKey + 1, End, [st EXCEPT !.blocks = appended])

Scan(firstBlock, End) ==
  Ascend(firstBlock, End,
         [blocks |-> <<>>, Next |-> BlockInfo(Empty), panicked |-> FALSE])

\* Lines 212-258 (and the same code at 285-324 and 340-380): the response
\* built for a start height and an end bound, and the value returned.
Window(firstBlock, End) ==
  LET sc == Scan(firstBlock, End) IN
  IF sc.panicked THEN [res |-> NoRes, ret |-> "panic"]
  ELSE [res |-> [kind |-> "headers", From |-> firstBlock, Blocks |-> sc.blocks,
                 Prev |-> PrevOf(firstBlock), Next |-> sc.Next],
        ret |-> "nil"]

getBlockHeadersByHeight_Body(args) == Window(args.Height, args.End)

\* Lines 261-326
getBlockHeadersID_Body(args) ==
  IF args.ID # EmptyStr
    THEN LET p == FromString(args.ID) IN
         IF p.err THEN [res |-> NoRes, ret |-> "error"]
         ELSE IF p.id \notin DOMAIN headers THEN [res |-> NoRes, ret |-> "panic"]
         ELSE Window(headers[p.id].Hght, args.End)
    ELSE [res |-> NoRes, ret |-> "nil"]

\* Lines 328-382
getBlockHeadersByStart_Body(args) ==
  Window(IF args.Start \in DOMAIN blocks THEN blocks[args.Start] ELSE 0, args.End)

\* Lines 384-404
getBlockTransactions_Body(args) ==
  IF args.ID # EmptyStr THEN [res |-> NoRes, ret |-> "nil"]
  ELSE LET p == FromString(args.ID) IN
       IF p.err THEN [res |-> NoRes, ret |-> "error"]
       ELSE IF p.id \notin DOMAIN headers THEN [res |-> NoRes, ret |-> "panic"]
       ELSE [res |-> [kind |-> "txs", Txs |-> headers[p.id].Txs, BlockId |-> p.id],
             ret |-> "nil"]

\* Lines 406-424
getBlockTransactionsByNamespace_Body(args) ==
  IF args.ID # EmptyStr THEN [res |-> NoRes, ret |-> "nil"]
  ELSE LET p == FromString(args.ID) IN
       IF p.err THEN [res |-> NoRes, ret |-> "error"]
       ELSE IF p.id \notin DOMAIN blocksWithValidTxs THEN [res |-> NoRes, ret |-> "panic"]
       ELSE LET block == blocksWithValidTxs[p.id]
                txs == IF args.Namespace \in DOMAIN block.Txs
                         THEN block.Txs[args.Namespace] ELSE <<>>
            IN [res |-> [kind |-> "txs", Txs |-> txs, BlockId |-> p.id], ret |-> "nil"]

\* The identifier strings a client sends: empty, malformed, the zero
\* identifier, and the identifiers of the blocks stored or being stored.
IDArgs ==
  {EmptyStr, BadStr, IDString(Empty)}
    \cup {IDString(id) : id \in DOMAIN headers}
    \cup (IF pc = "idle" THEN {} ELSE {IDString(cur.id)})
EndArgs == Timestamps
NamespaceArgs == Namespaces

\* One handler call as its caller sees it: the reply object passed in is the
\* zero value, and what the caller holds afterwards is whatever the handler
\* left in it.
Observed(op, args, out, zero) ==
  [op |-> op, args |-> args, res |-> out.res,
   reply |-> IF out.res = NoRes THEN zero ELSE AssignReply(zero, out.res),
   ret |-> out.ret]

getBlockHeadersByHeight ==
  /\ Quiet
  /\ \E h \in Heights, e \in EndArgs :
       q' = Observed("getBlockHeadersByHeight", [Height |-> h, End |-> e],
                     getBlockHeadersByHeight_Body([Height |-> h, End |-> e]),
                     ZeroHeadersReply)
  /\ UNCHANGED <<stores, pc, cur, acc, ingested, crashed>>

getBlockHeadersID ==
  /\ Quiet
  /\ \E s \in IDArgs, e \in EndArgs :
       q' = Observed("getBlockHeadersID", [ID |-> s, End |-> e],
                     getBlockHeadersID_Body([ID |-> s, End |-> e]),
                     ZeroHeadersReply)
  /\ UNCHANGED <<stores, pc, cur, acc, ingested, crashed>>

getBlockHeadersByStart ==
  /\ Quiet
  /\ \E t \in Timestamps, e \in EndArgs :
       q' = Observed("getBlockHeadersByStart", [Start |-> t, End |-> e],
                     getBlockHeadersByStart_Body([Start |-> t, End |-> e]),
                     ZeroHeadersReply)
  /\ UNCHANGED <<stores, pc, cur, acc, ingested, crashed>>

getBlockTransactions ==
  /\ Quiet
  /\ \E s \in IDArgs :
       q' = Observed("getBlockTransactions", [ID |-> s],
                     getBlockTransactions_Body([ID |-> s]), ZeroTxReply)
  /\ UNCHANGED <<stores, pc, cur, acc, ingested, crashed>>

getBlockTransactionsByNamespace ==
  /\ Quiet
  /\ \E s \in IDArgs, ns \in NamespaceArgs :
       q' = Observed("getBlockTransactionsByNamespace", [ID |-> s, Namespace |-> ns],
                     getBlockTransactionsByNamespace_Body([ID |-> s, Namespace |-> ns]),
                     ZeroTxReply)
  /\ UNCHANGED <<stores, pc, cur, acc, ingested, crashed>>

\* ------------------------------------------------------ specifications
AcceptBlock ==
  /\ Len(ingested) < MaxBlocks
  /\ \E inp \in HeaderInputs, fail \in {"none", "pack", "unpack"} :
       AcceptBlock_Unpack(inp, fail)

AcceptBlockTx ==
  /\ Len(ingested) < TxMaxBlocks
  /\ \E inp \in TxInputs, fail \in {"none", "pack", "unpack"} :
       AcceptBlock_Unpack(inp, fail)

\* The index under blocks of any height and time, and every handler.
Next ==
  \/ AcceptBlock
  \/ AcceptBlock_StoreHeader
  \/ AcceptBlock_SetHeight
  \/ AcceptBlock_SetTime
  \/ AcceptBlock_StorePartition
  \/ RaceFatal
  \/ getBlockHeadersByHeight
  \/ getBlockHeadersID
  \/ getBlockHeadersByStart
  \/ getBlockTransactions
  \/ getBlockTransactionsByNamespace
  \/ Return

Spec == Init /\ [][Next]_vars

\* The partition AcceptBlock stores, under blocks of every transaction list
\* and every result vector.
NextTx ==
  \/ AcceptBlockTx
  \/ AcceptBlock_StoreHeader
  \/ AcceptBlock_SetHeight
  \/ AcceptBlock_SetTime
  \/ AcceptBlock_StorePartition
  \/ Return

SpecTx == Init /\ [][NextTx]_vars

\* The scan as a function of the index it is given.  The index holds the
\* heights 0 .. n-1; the header stored for a height carries any timestamp,
\* and either that height or, as the check of line 229 provides for, another
\* one.
ScanChoices == [skew : BOOLEAN, Tmstmp : Timestamps]

ScanID(k, c) == BlockID(MkInput(k, c.Tmstmp, CHOOSE p \in PlainPayloads : TRUE).blk)

ScanHeader(k, c) ==
  [Hght |-> IF c.skew THEN (k + 1) % HeightMod ELSE k,
   Tmstmp |-> c.Tmstmp,
   Txs |-> (CHOOSE p \in PlainPayloads : TRUE).Txs]

InitScan ==
  \E n \in 0 .. ScanEntries :
    \E f \in [0 .. (n - 1) -> ScanChoices] :
      /\ idsByHeight = [k \in 0 .. (n - 1) |-> ScanID(k, f[k])]
      /\ headers = [id \in {ScanID(k, f[k]) : k \in 0 .. (n - 1)} |->
                      LET k == CHOOSE k \in 0 .. (n - 1) : ScanID(k, f[k]) = id
                      IN ScanHeader(k, f[k])]
      /\ blocks = [t \in {f[k].Tmstmp : k \in 0 .. (n - 1)} |->
                     CHOOSE k \in 0 .. (n - 1) :
                       /\ f[k].Tmstmp = t
                       /\ \A k2 \in 0 .. (n - 1) : f[k2].Tmstmp = t => k2 <= k]
      /\ blocksWithValidTxs = EmptyMap
      /\ pc = "idle"
      /\ cur = NoCur
      /\ acc = NoAcc
      /\ q = NoCall
      /\ ingested = <<>>
      /\ crashed = FALSE

NextScan ==
  \/ getBlockHeadersByHeight
  \/ getBlockHeadersID
  \/ getBlockHeadersByStart
  \/ Return

SpecScan == InitScan /\ [][NextScan]_vars

\* ------------------------------------------------------------ properties
HeaderOps == {"getBlockHeadersByHeight", "getBlockHeadersID", "getBlockHeadersByStart"}

\* The last step was a block-header query that built a response.
BuiltHeaders == q.op \in HeaderOps /\ q.res.kind = "headers"

Min(S) == CHOOSE x \in S : \A y \in S : x <= y

RECURSIVE Ascending(_)
Ascending(S) == IF S = {} THEN <<>> ELSE <<Min(S)>> \o Ascending(S \ {Min(S)})

TmstmpAt(h) == headers[idsByHeight[h]].Tmstmp

\* The indexed heights from start on whose block is within / beyond the bound.
Within(start, End) == {h \in DOMAIN idsByHeight : h >= start /\ TmstmpAt(h) <= End}
Beyond(start, End) == {h \in DOMAIN idsByHeight : h >= start /\ TmstmpAt(h) > End}

RunOf(start, End) ==
  [i \in 1 .. Cardinality(Within(start, End)) |->
     BlockInfo(idsByHeight[Ascending(Within(start, End))[i]])]

FirstBeyond(start, End) ==
  IF Beyond(start, End) = {} THEN BlockInfo(Empty)
  ELSE BlockInfo(idsByHeight[Min(Beyond(start, End))])

\* C1: on an index built by completed AcceptBlock calls, the Blocks a
\* block-header query builds are exactly the indexed blocks from the start
\* height on whose timestamp is at most the end bound, in ascending height
\* order; Next is the first block beyond the bound, which is not among
\* Blocks, and is empty when there is none.
C1_WindowCorrect ==
  (BuiltHeaders /\ pc = "idle") =>
    /\ q.res.Blocks = RunOf(q.res.From, q.args.End)
    /\ q.res.Next = FirstBeyond(q.res.From, q.args.End)

\* C2: when a handler computed a result and returned no error, the reply
\* object of the caller holds that result.
C2_ResultDelivered ==
  (q.ret = "nil" /\ q.res # NoRes) => q.reply = q.res

\* C3: in every state, inside an AcceptBlock call too, every identifier in
\* headers has its partition in blocksWithValidTxs.
C3_HeaderHasPartition ==
  \A id \in DOMAIN headers : id \in DOMAIN blocksWithValidTxs

\* C4: in every state, inside an AcceptBlock call too, every identifier in
\* idsByHeight has its header in headers, and so no query by height or by
\* start time, whose only header lookups are those of the scan, dereferences
\* a missing header.
C4_HeightToHeaderTotal ==
  /\ \A h \in DOMAIN idsByHeight : idsByHeight[h] \in DOMAIN headers
  /\ q.op \in {"getBlockHeadersByHeight", "getBlockHeadersByStart"} => q.ret = "nil"

\* A reader scanned the index between the height insertion of an
\* AcceptBlock call and the end of that call, and got the block being
\* ingested.
C4_Witness ==
  /\ pc \in {"l439", "l443"}
  /\ cur.blk.Hght \in DOMAIN idsByHeight
  /\ idsByHeight[cur.blk.Hght] = cur.id
  /\ q.op = "getBlockHeadersByHeight"
  /\ q.ret = "nil"
  /\ \E i \in 1 .. Len(q.res.Blocks) : q.res.Blocks[i] = BlockInfo(cur.id)

\* C5: Prev is the identifier indexed at start height - 1 when the start
\* height is at least 1 and that height is indexed, and empty otherwise; for
\* start height 0 it is empty whatever the index holds.
C5_PrevNoWraparound ==
  (BuiltHeaders /\ pc = "idle") =>
    q.res.Prev =
      IF q.res.From >= 1 /\ (q.res.From - 1) \in DOMAIN idsByHeight
        THEN BlockInfo(idsByHeight[q.res.From - 1])
        ELSE BlockInfo(Empty)

\* The value of a hex digit and the bytes a hex string stands for.
HexValue(c) == CHOOSE v \in 0 .. 15 : HexTable[v + 1] = c

RECURSIVE DecodeString(_)
DecodeString(str) ==
  IF Len(str) < 2 THEN <<>>
  ELSE <<16 * HexValue(str[1]) + HexValue(str[2])>> \o DecodeString(SubSeq(str, 3, Len(str)))

\* The places <<namespace, position>> of a stored partition.
Places(part) ==
  UNION {{<<ns, k>> : k \in 1 .. Len(part[ns])} : ns \in DOMAIN part}

PlacesOf(part, tx) == {pl \in Places(part) : part[pl[1]][pl[2]].Tx_id = TxID(tx)}

\* C6: for every ingested block, a transaction that succeeded and whose
\* action is a SequencerMsg is at exactly one place of the block's stored
\* partition, under the namespace that is the hex text of its own ChainId; a
\* failed transaction or one with another action is at no place; and the
\* partition holds nothing else.
C6_PartitionExact ==
  \A n \in 1 .. Len(ingested) :
    LET rec == ingested[n]
        part == blocksWithValidTxs[rec.id].Txs
    IN /\ rec.id \in DOMAIN blocksWithValidTxs
       /\ \A i \in 1 .. Len(rec.blk.Txs) :
            LET tx == rec.blk.Txs[i] IN
            IF rec.results[i] /\ tx.Kind = "SequencerMsg"
              THEN /\ Cardinality(PlacesOf(part, tx)) = 1
                   /\ \A pl \in PlacesOf(part, tx) :
                        /\ Len(pl[1]) = 2 * Len(tx.ChainId)
                        /\ DecodeString(pl[1]) = tx.ChainId
                        /\ part[pl[1]][pl[2]].Namespace = pl[1]
                        /\ part[pl[1]][pl[2]].Transaction = tx.Data
              ELSE PlacesOf(part, tx) = {}
       /\ \A pl \in Places(part) :
            \E i \in 1 .. Len(rec.blk.Txs) :
              TxID(rec.blk.Txs[i]) = part[pl[1]][pl[2]].Tx_id

\* An ingested block with a kept transaction and a dropped one: a failed
\* SequencerMsg next to a successful one.
C6_Witness ==
  \E n \in 1 .. Len(ingested) :
    LET rec == ingested[n] IN
    /\ rec.id \in DOMAIN blocksWithValidTxs
    /\ \E i, k \in 1 .. Len(rec.blk.Txs) :
         /\ rec.results[i] /\ rec.blk.Txs[i].Kind = "SequencerMsg"
         /\ ~rec.results[k] /\ rec.blk.Txs[k].Kind = "SequencerMsg"
         /\ PlacesOf(blocksWithValidTxs[rec.id].Txs, rec.blk.Txs[i]) # {}

\* C7: an AcceptBlock call whose packing or unpacking fails returns an error
\* and leaves the four stores as they were.
C7_FailureLeavesNoTrace ==
  [][acc'.fail # "none" => (acc'.ret = "error" /\ UNCHANGED stores)]_vars

\* C8: getBlockHeadersID with the empty identifier, or with a well-formed
\* identifier that is not in headers, returns no error and leaves the
\* default response, without crashing.
C8_MissingIdDefault ==
  (/\ q.op = "getBlockHeadersID"
   /\ \/ q.args.ID = EmptyStr
      \/ /\ ~FromString(q.args.ID).err
         /\ FromString(q.args.ID).id \notin DOMAIN headers)
    => (q.ret = "nil" /\ q.reply = ZeroHeadersReply)

\* What a transaction query yielded: the result it computed, or, when it
\* computed none, what its caller is left with.
Yielded == IF q.res = NoRes THEN q.reply ELSE q.res

\* C9: getBlockTransactions with the identifier of an ingested block yields
\* the whole transaction list of that block, in order, with the identifier.
C9_BlockTransactions ==
  \A n \in 1 .. Len(ingested) :
    (q.op = "getBlockTransactions" /\ q.args.ID = IDString(ingested[n].id))
      => /\ q.ret = "nil"
         /\ Yielded.Txs = ingested[n].blk.Txs
         /\ Yielded.BlockId = ingested[n].id

\* C10: getBlockTransactionsByNamespace with an ingested block and a
\* namespace yields the list stored for that pair, and the empty sequence
\* with no error when the namespace has no list there or the block is not
\* stored.
C10_NamespaceTransactions ==
  (q.op = "getBlockTransactionsByNamespace" /\ ~FromString(q.args.ID).err)
    => LET id == FromString(q.args.ID).id IN
       /\ q.ret = "nil"
       /\ Yielded.Txs =
            IF id \in DOMAIN blocksWithValidTxs
                 /\ q.args.Namespace \in DOMAIN blocksWithValidTxs[id].Txs
              THEN blocksWithValidTxs[id].Txs[q.args.Namespace]
              ELSE <<>>

IdOps == {"getBlockHeadersID", "getBlockTransactions", "getBlockTransactionsByNamespace"}

\* C11: a handler that takes an identifier string returns an error when the
\* string is not empty and cannot be parsed.
C11_MalformedIsError ==
  (q.op \in IdOps /\ q.args.ID # EmptyStr /\ FromString(q.args.ID).err)
    => q.ret = "error"

IngestedHeights == {ingested[n].blk.Hght : n \in 1 .. Len(ingested)}

\* C12: after AcceptBlock calls in strictly increasing height order,
\* idsByHeight has an entry for exactly the ingested heights, and the entry
\* of a height is the identifier of the block ingested at that height.
C12_HeightUnique ==
  pc = "idle" =>
    /\ DOMAIN idsByHeight = IngestedHeights
    /\ \A n \in 1 .. Len(ingested) :
         idsByHeight[ingested[n].blk.Hght] = ingested[n].id

\* Two blocks ingested with a never-ingested height below the second.
C12_Witness ==
  /\ pc = "idle"
  /\ Len(ingested) = 2
  /\ \E h \in Heights : h < ingested[2].blk.Hght /\ h \notin DOMAIN idsByHeight

\* C13: an entry of idsByHeight and a header of headers, once present, are
\* present with the same value after every later step of AcceptBlock and of
\* every query.
C13_WriteOnce ==
  [][/\ \A h \in DOMAIN idsByHeight :
          h \in DOMAIN idsByHeight' /\ idsByHeight'[h] = idsByHeight[h]
     /\ \A id \in DOMAIN headers :
          id \in DOMAIN headers' /\ headers'[id] = headers[id]]_vars

\* A query ran inside a second AcceptBlock call that has made its writes to
\* headers and idsByHeight, and the entries of the first block are there.
C13_Witness ==
  /\ pc = "l443"
  /\ Len(ingested) = 1
  /\ q.op \in HeaderOps
  /\ ingested[1].id \in DOMAIN headers
  /\ ingested[1].blk.Hght \in DOMAIN idsByHeight
  /\ Cardinality(DOMAIN idsByHeight) = 2
  /\ Cardinality(DOMAIN headers) = 2

\* C14: after AcceptBlock calls in increasing height order with timestamps
\* that never decrease, the Time Index has as many entries as blocks were
\* accepted, and the height of every accepted block is the value of one.
C14_TimeIndexPerBlock ==
  pc = "idle" =>
    /\ Cardinality(DOMAIN blocks) = Len(ingested)
    /\ \A n \in 1 .. Len(ingested) :
         \E t \in DOMAIN blocks : blocks[t] = ingested[n].blk.Hght

Max(S) == CHOOSE x \in S : \A y \in S : x >= y

\* The last position of seq whose block has key k under the keying Key.
LastWith(seq, Key(_), k) == Max({n \in 1 .. Len(seq) : Key(seq[n].blk) = k})

KeyHght(blk) == blk.Hght
KeyTmstmp(blk) == blk.Tmstmp

\* The four stores as a function of the sequence of blocks and results
\* replayed from the empty state: the last block of a key decides its entry.
Replay(seq) ==
  LET idSet == {BlockID(seq[n].blk) : n \in 1 .. Len(seq)}
      hSet == {seq[n].blk.Hght : n \in 1 .. Len(seq)}
      tSet == {seq[n].blk.Tmstmp : n \in 1 .. Len(seq)}
  IN <<[id \in idSet |-> seq[LastWith(seq, BlockID, id)].blk],
       [id \in idSet |->
          SequencerBlock(seq[LastWith(seq, BlockID, id)].blk,
                         seq[LastWith(seq, BlockID, id)].results)],
       [h \in hSet |-> BlockID(seq[LastWith(seq, KeyHght, h)].blk)],
       [t \in tSet |-> seq[LastWith(seq, KeyTmstmp, t)].blk.Hght]>>

\* C15: the four stores after a sequence of AcceptBlock calls are a function
\* of the sequence of blocks and results alone, whatever queries and failed
\* calls ran in between; so two replays of one sequence end in the same
\* stores, on which every query computes the same result.
C15_RebuildDeterminism ==
  pc = "idle" => stores = Replay(ingested)

\* Two blocks replayed, of one timestamp, with a query having run since.
C15_Witness ==
  /\ pc = "idle"
  /\ Len(ingested) = 2
  /\ ingested[1].blk.Tmstmp = ingested[2].blk.Tmstmp
  /\ q.op \in HeaderOps

\* The index keys whose entry holds the identifier of a block of Blocks.
KeysIn(Blocks) ==
  {k \in DOMAIN idsByHeight :
     \E i \in 1 .. Len(Blocks) : Blocks[i] = BlockInfo(idsByHeight[k])}

\* C16: Next is the first block, in ascending height order from the start
\* height, whose timestamp exceeds the end bound, and no block at a greater
\* height than that one is in Blocks, whatever its timestamp.
C16_EarlyTermination ==
  BuiltHeaders =>
    /\ q.res.Next = FirstBeyond(q.res.From, q.args.End)
    /\ Beyond(q.res.From, q.args.End) # {} =>
         \A k \in KeysIn(q.res.Blocks) : k <= Min(Beyond(q.res.From, q.args.End))

\* A scan that stopped at a block beyond the bound while a block at a
\* greater height is within the bound.
C16_Witness ==
  /\ BuiltHeaders
  /\ q.res.Next # BlockInfo(Empty)
  /\ \E k \in DOMAIN idsByHeight :
       /\ k > Min(Beyond(q.res.From, q.args.End))
       /\ TmstmpAt(k) <= q.args.End
       /\ k \notin KeysIn(q.res.Blocks)

\* C19: an entry from the start height on whose stored header has another
\* height than its key is not in Blocks, and the scan does not stop at it:
\* it is not Next either.
C19_SkipInconsistent ==
  BuiltHeaders =>
    \A k \in DOMAIN idsByHeight :
      (k >= q.res.From /\ headers[idsByHeight[k]].Hght # k)
        => /\ k \notin KeysIn(q.res.Blocks)
           /\ q.res.Next # BlockInfo(idsByHeight[k])

\* C17: for every ingested block and every end bound, the query by the
\* block's height, by its identifier and by its timestamp compute the same
\* response.
C17_EntryPointsAgree ==
  pc = "idle" =>
    \A n \in 1 .. Len(ingested), e \in EndArgs :
      LET b == ingested[n]
          byHeight == getBlockHeadersByHeight_Body([Height |-> b.blk.Hght, End |-> e])
          byID == getBlockHeadersID_Body([ID |-> IDString(b.id), End |-> e])
          byStart == getBlockHeadersByStart_Body([Start |-> b.blk.Tmstmp, End |-> e])
      IN byHeight = byID /\ byID = byStart

\* C18: in every namespace list of an ingested block's partition, the Index
\* of a record is the zero-based position of its transaction in the block's
\* transaction list, and the Index grows strictly along the list, so the
\* records are in block order.
C18_OrderAndIndex ==
  \A n \in 1 .. Len(ingested) :
    LET rec == ingested[n]
        part == blocksWithValidTxs[rec.id].Txs
    IN \A ns \in DOMAIN part :
         \A k \in 1 .. Len(part[ns]) :
           /\ part[ns][k].Index + 1 \in 1 .. Len(rec.blk.Txs)
           /\ TxID(rec.blk.Txs[part[ns][k].Index + 1]) = part[ns][k].Tx_id
           /\ k > 1 => part[ns][k - 1].Index < part[ns][k].Index

\* An ingested block whose partition has a namespace list of two records.
C18_Witness ==
  \E n \in 1 .. Len(ingested) :
    LET part == blocksWithValidTxs[ingested[n].id].Txs
    IN \E ns \in DOMAIN part : Len(part[ns]) = 2

\* The indexed heights a scan from start visits: those up to the first block
\* beyond the bound.
Visited(start, End) ==
  {k \in DOMAIN idsByHeight :
     /\ k >= start
     /\ \A b \in Beyond(start, End) : k <= b}

\* C20: for every entry h -> id of idsByHeight the header stored under id has
\* height h, for every entry t -> h of the Time Index the block indexed at
\* height h has timestamp t, and a scan puts every entry it visits into
\* Blocks.
C20_IndexHeaderAgree ==
  /\ \A h \in DOMAIN idsByHeight : headers[idsByHeight[h]].Hght = h
  /\ \A t \in DOMAIN blocks :
       blocks[t] \in DOMAIN idsByHeight /\ TmstmpAt(blocks[t]) = t
  /\ BuiltHeaders =>
       KeysIn(q.res.Blocks) = Visited(q.res.From, q.args.End)

\* A scan over two ingested blocks of different timestamps took both.
C20_Witness ==
  /\ BuiltHeaders
  /\ Len(q.res.Blocks) = 2
  /\ Cardinality(DOMAIN blocks) = 2
  /\ Len(ingested) = 2
====
